---- MODULE Spec2Model ----
(***************************************************************************)
(* The metric catalog of snap (control/metrics.go): the trie store, the    *)
(* catalog key list, the wildcard match cache (mKeys), the iterator cursor *)
(* and the catalog mutex, with one action per step of each public method.  *)
(*                                                                         *)
(* Strings are sequences of one-character strings, so that joining,        *)
(* splitting and the regular-expression match are computed, not assumed.   *)
(* A namespace is a sequence of such strings.                              *)
(***************************************************************************)
EXTENDS Integers, Sequences, FiniteSets, TLC

\* tree, keys, mKeys, currentIter, mutex: the fields of metricCatalog
\*   (metrics.go:191-199); mutex holds the caller that locked it, or NoThread
\* pc:   where each caller is: "idle" (in no method), "calling" (about to
\*       lock, inside Add or Get called by a wrapper), "locked" (holding the
\*       mutex, the method's body to run), "Next" and "Item" (between the
\*       statements of these methods), "panic"
\* call: the method each caller is in, or was last in, and its arguments
\* ret:  what each caller's last call returned, NoRet while it runs
VARIABLES tree, keys, mKeys, currentIter, mutex, pc, call, ret

vars == <<tree, keys, mKeys, currentIter, mutex, pc, call, ret>>

----------------------------------------------------------------------------
(* Bounds of the model *)

\* subscription counts are capped at MaxSubs by the guard of Subscribe
MaxSubs == 1

\* the registration-only specification stops at MaxKeys registered keys
MaxKeys == 2

----------------------------------------------------------------------------
(* Strings *)

\* strings.Join(elems, sep), sep a string
RECURSIVE Join(_, _)
Join(elems, sep) ==
    IF elems = <<>> THEN <<>>
    ELSE IF Len(elems) = 1 THEN elems[1]
    ELSE elems[1] \o sep \o Join(Tail(elems), sep)

\* strings.Split(s, sep) for a one-character sep: always at least one
\* element, Split("", sep) = [""]
RECURSIVE SplitFrom(_, _, _)
SplitFrom(s, sep, cur) ==
    IF s = <<>> THEN <<cur>>
    ELSE IF Head(s) = sep THEN <<cur>> \o SplitFrom(Tail(s), sep, <<>>)
    ELSE SplitFrom(Tail(s), sep, Append(cur, Head(s)))

Split(s, sep) == SplitFrom(s, sep, <<>>)

\* strings.Replace(s, old, new, -1) for a one-character old
RECURSIVE ReplaceAll(_, _, _)
ReplaceAll(s, old, new) ==
    IF s = <<>> THEN <<>>
    ELSE (IF Head(s) = old THEN new ELSE <<Head(s)>>) \o ReplaceAll(Tail(s), old, new)

\* strings.ContainsAny(s, ch) for a one-character ch
ContainsAny(s, ch) == \E i \in 1..Len(s) : s[i] = ch

\* strings.HasSuffix(s, ch) for a one-character ch
HasSuffix(s, ch) == s # <<>> /\ s[Len(s)] = ch

getMetricKey(metric) == Join(metric, <<".">>)

getMetricNamespace(key) == Split(key, ".")

----------------------------------------------------------------------------
(* The regular expression built by addItemToMatchingMap.  The expressions  *)
(* the translation produces consist of the class "[.]", the pair ".*" and  *)
(* literal characters.                                                     *)

RECURSIVE RegexMatch(_, _)
RegexMatch(exp, s) ==
    IF exp = <<>> THEN s = <<>>
    ELSE IF Len(exp) >= 3 /\ SubSeq(exp, 1, 3) = <<"[", ".", "]">>
    THEN s # <<>> /\ Head(s) = "." /\ RegexMatch(SubSeq(exp, 4, Len(exp)), Tail(s))
    ELSE IF Len(exp) >= 2 /\ SubSeq(exp, 1, 2) = <<".", "*">>
    THEN \/ RegexMatch(SubSeq(exp, 3, Len(exp)), s)
         \/ s # <<>> /\ RegexMatch(exp, Tail(s))
    ELSE s # <<>> /\ Head(s) = Head(exp) /\ RegexMatch(Tail(exp), Tail(s))

\* exp as computed at metrics.go:273-276
QueryRegex(wkey) == ReplaceAll(ReplaceAll(wkey, ".", <<"[", ".", "]">>), "*", <<".", "*">>)

\* appendIfMissing without the search for ns
appendAlways(ks, ns) == Append(ks, ns)

appendIfMissing(ks, ns) ==
    IF \E i \in 1..Len(ks) : ks[i] = ns THEN ks ELSE Append(ks, ns)

\* the loop of addItemToMatchingMap with a regular expression that is not
\* anchored at its end
RECURSIVE MatchedKeysNoEndAnchor(_, _, _)
MatchedKeysNoEndAnchor(exp, ks, acc) ==
    IF ks = <<>> THEN acc
    ELSE MatchedKeysNoEndAnchor(exp, Tail(ks),
             IF RegexMatch(exp \o <<".", "*">>, Head(ks))
             THEN appendIfMissing(acc, Head(ks)) ELSE acc)

\* the loop of addItemToMatchingMap over mc.keys
RECURSIVE MatchedKeys(_, _, _)
MatchedKeys(exp, ks, acc) ==
    IF ks = <<>> THEN acc
    ELSE MatchedKeys(exp, Tail(ks),
                     IF RegexMatch(exp, Head(ks)) THEN appendIfMissing(acc, Head(ks)) ELSE acc)

----------------------------------------------------------------------------
(* Plugins and metric types *)

P1 == [name |-> "p1", version |-> 1, ConfigPolicy |-> TRUE]
P2 == [name |-> "p2", version |-> 2, ConfigPolicy |-> TRUE]
P0 == [name |-> "p0", version |-> 1, ConfigPolicy |-> FALSE]

Plugins == {P1, P2, P0}

PluginVersion(lp) == lp.version

\* metricType.Version()
Version(m) == IF m.version > 0 THEN m.version ELSE PluginVersion(m.Plugin)

metricType(lp, ns, ver) ==
    [Plugin |-> lp, namespace |-> ns, version |-> ver, subscriptions |-> 0]

\* what identifies the entry a caller was handed (the pointer's target)
EntryOf(m) == [Plugin |-> m.Plugin, namespace |-> m.namespace, version |-> m.version]


NoPlugin == [name |-> "none", version |-> 0, ConfigPolicy |-> FALSE]

----------------------------------------------------------------------------
(* The trie store (control/mttrie.go), as the set of the entries it holds. *)
(* At most one entry is stored per namespace and Version().                *)

NewMTTrie == {}

TrieAdd(tr, m) ==
    {e \in tr : ~(e.namespace = m.namespace /\ Version(e) = Version(m))} \cup {m}

\* all versions at the node of ns; empty when the path holds nothing
TrieGet(tr, ns) == {e \in tr : e.namespace = ns}

TrieRemove(tr, ns) == {e \in tr : e.namespace # ns}

TrieDeleteByPlugin(tr, lp) == {e \in tr : e.Plugin # lp}

IsPrefix(p, s) == Len(p) <= Len(s) /\ SubSeq(s, 1, Len(p)) = p

TrieFetch(tr, ns) == {e \in tr : IsPrefix(ns, e.namespace)}

----------------------------------------------------------------------------
(* Namespace validation.  A TLA+ string cannot hold the backquote, which   *)
(* is written "backquote" here.                                            *)

notAllowedChars ==
    {"(", ")", "[", "]", "{", "}", " ", ".", ",", ";", "?", "!",
     "|", "\\", "/", "^", "\"", "backquote", "'"}

\* validateMetricNamespace without the test for a trailing asterisk
validateMetricNamespaceCharsOnly(ns) ==
    LET name == Join(ns, <<>>)
    IN  IF \E ch \in notAllowedChars : ContainsAny(name, ch)
        THEN "errorMetricContainsNotAllowedChars"
        ELSE "nil"

validateMetricNamespace(ns) ==
    LET name == Join(ns, <<>>)
    IN  IF \E ch \in notAllowedChars : ContainsAny(name, ch)
        THEN "errorMetricContainsNotAllowedChars"
        ELSE IF HasSuffix(name, "*") THEN "errorMetricEndsWithAsterisk"
        ELSE "nil"

----------------------------------------------------------------------------
(* The wildcard match cache: a function from the cached query keys to the  *)
(* list of catalog keys each matched.                                      *)

removeItemFromMatchingMap(mk, wkey) == [w \in DOMAIN mk \ {wkey} |-> mk[w]]

addItemToMatchingMap(mk, ks, wkey) ==
    LET matchedKeys == MatchedKeys(QueryRegex(wkey), ks, <<>>)
    IN  IF Len(matchedKeys) = 0
        THEN removeItemFromMatchingMap(mk, wkey)
        ELSE [w \in DOMAIN mk \cup {wkey} |-> IF w = wkey THEN matchedKeys ELSE mk[w]]

\* the range loop over mc.mKeys; todo is the set of query keys still to visit
RECURSIVE updateMatchingMapLoop(_, _, _)
updateMatchingMapLoop(mk, ks, todo) ==
    IF todo = {} THEN mk
    ELSE LET wkey == CHOOSE w \in todo : TRUE
         IN  updateMatchingMapLoop(addItemToMatchingMap(mk, ks, wkey), ks, todo \ {wkey})

updateMatchingMap(mk, ks) == updateMatchingMapLoop(mk, ks, DOMAIN mk)

\* the inner loop of removeMatchedKey: arr is the backing array of mkeys
\* (its length n is fixed when the range starts), cur the slice stored in
\* mc.mKeys[wkey]; append(mkeys[:index], mkeys[index+1:]...) shifts the array
\* in place and leaves its last cell as it was
\* the removal written as a swap with the last element
RECURSIVE removeFromSliceSwapLast(_, _, _, _)
removeFromSliceSwapLast(arr, cur, index, key) ==
    IF index > Len(arr) THEN cur
    ELSE IF arr[index] = key
    THEN LET n == Len(arr)
             swapped == [arr EXCEPT ![index] = arr[n]]
         IN  removeFromSliceSwapLast(swapped, SubSeq(swapped, 1, n - 1), index + 1, key)
    ELSE removeFromSliceSwapLast(arr, cur, index + 1, key)

RECURSIVE removeFromSlice(_, _, _, _)
removeFromSlice(arr, cur, index, key) ==
    IF index > Len(arr) THEN cur
    ELSE IF arr[index] = key
    THEN LET n == Len(arr)
             shifted == SubSeq(arr, 1, index - 1) \o SubSeq(arr, index + 1, n) \o <<arr[n]>>
         IN  removeFromSlice(shifted, SubSeq(shifted, 1, n - 1), index + 1, key)
    ELSE removeFromSlice(arr, cur, index + 1, key)

\* removeMatchedKey without the deletion of a query key left with no match
RECURSIVE removeMatchedKeyLoopKeepEmpty(_, _, _)
removeMatchedKeyLoopKeepEmpty(mk, key, todo) ==
    IF todo = {} THEN mk
    ELSE LET wkey == CHOOSE w \in todo : TRUE
             left == removeFromSlice(mk[wkey], mk[wkey], 1, key)
         IN  removeMatchedKeyLoopKeepEmpty([mk EXCEPT ![wkey] = left], key, todo \ {wkey})

\* the range loop of removeMatchedKey over mc.mKeys
RECURSIVE removeMatchedKeyLoop(_, _, _)
removeMatchedKeyLoop(mk, key, todo) ==
    IF todo = {} THEN mk
    ELSE LET wkey == CHOOSE w \in todo : TRUE
             left == removeFromSlice(mk[wkey], mk[wkey], 1, key)
             mk1  == [mk EXCEPT ![wkey] = left]
         IN  removeMatchedKeyLoop(
                 IF Len(left) = 0 THEN removeItemFromMatchingMap(mk1, wkey) ELSE mk1,
                 key, todo \ {wkey})

removeMatchedKey(mk, key) == removeMatchedKeyLoop(mk, key, DOMAIN mk)

RECURSIVE convertKeysToNamespaces(_)
convertKeysToNamespaces(ks) ==
    IF ks = <<>> THEN <<>>
    ELSE LET ns == getMetricNamespace(Head(ks))
         IN  (IF Len(ns) # 0 THEN <<ns>> ELSE <<>>) \o convertKeysToNamespaces(Tail(ks))

\* the result of matchedNamespaces: an error, or the matched namespaces
matchedNamespaces(mk, wkey) ==
    LET mkeys == IF wkey \in DOMAIN mk THEN mk[wkey] ELSE <<>>
    IN  IF Len(mkeys) = 0
        THEN [err |-> "errorMetricNotFound", val |-> <<>>]
        ELSE [err |-> "nil", val |-> convertKeysToNamespaces(mkeys)]

----------------------------------------------------------------------------
(* Version resolution *)

\* getVersions: an error, or the entries registered under ns
getVersions(tr, ns) ==
    LET mts == TrieGet(tr, ns)
    IN  IF mts = {} THEN [err |-> "errorMetricNotFound", mts |-> {}]
        ELSE [err |-> "nil", mts |-> mts]

\* getLatest without the move to a greater version: c[0] as it comes
getLatestFirst(c) == c

\* getLatest: starts from c[0] and moves to every entry with a greater
\* Version(); the outcome for each choice of c[0]
getLatest(c) == {m \in c : \A o \in c : ~(Version(o) > Version(m))}

\* getVersion: the first entry of c whose plugin has version ver; c is
\* listed in no fixed order, so any such entry can come first
getVersion(c, ver) == {m \in c : PluginVersion(m.Plugin) = ver}

\* get: the set of outcomes [err, m] the call can produce
get(tr, ns, ver) ==
    LET r == getVersions(tr, ns)
    IN  IF r.err # "nil" THEN {[err |-> r.err, m |-> {}]}
        ELSE IF ver > 0
        THEN IF getVersion(r.mts, ver) = {}
             THEN {[err |-> "errorMetricNotFound", m |-> {}]}
             ELSE {[err |-> "nil", m |-> {m}] : m \in getVersion(r.mts, ver)}
        ELSE {[err |-> "nil", m |-> {m}] : m \in getLatest(r.mts)}


----------------------------------------------------------------------------
(* Callers and their inputs *)

Threads == {"t1", "t2"}

NoThread == "none"

a == <<"a">>
b == <<"b">>
c == <<"c">>
star == <<"*">>

NsAB   == <<a, b>>
NsABC  == <<a, b, c>>
NsStar == <<a, star>>
NsSp   == <<a, <<"b", " ">> >>
NsAC   == <<a, c>>
NsABStar == <<a, <<"b", "*">> >>
NsStarC  == <<star, c>>

Metric(lp, ns, ver) == [lp |-> lp, ns |-> ns, ver |-> ver]

Call(op, ns, ver, lp) == [op |-> op, ns |-> ns, ver |-> ver, lp |-> lp]

\* The inputs of a single caller: the metrics plugins advertise (ver 0: the
\* metric carries no version of its own), and the calls that take the mutex
\* in their first statement.
Metrics ==
    {Metric(P1, NsAB, 0), Metric(P2, NsAB, 0), Metric(P1, NsAB, 2),
     Metric(P1, NsABC, 0), Metric(P0, NsAB, 0),
     Metric(P1, NsStar, 0), Metric(P0, NsStar, 0), Metric(P1, NsSp, 0)}

Lookups     == {NsAB, NsABC}
Queries     == {NsStar, NsAB}
VersionArgs == {-1, 1, 2}

LockingCalls ==
    {Call("Remove", ns, 0, NoPlugin) : ns \in Lookups}
    \cup {Call("RmUnloadedPluginMetrics", <<>>, 0, lp) : lp \in {P1, P2}}
    \cup {Call(op, q, 0, NoPlugin) :
            op \in {"MatchQuery", "GetQueriedNamespaces"}, q \in Queries}
    \cup {Call(op, ns, v, NoPlugin) :
            op \in {"Get", "Subscribe", "Unsubscribe"}, ns \in Lookups, v \in VersionArgs}
    \cup {Call("Get", ns, 0, NoPlugin) : ns \in Lookups}
    \cup {Call(op, ns, 0, NoPlugin) : op \in {"GetVersions", "Fetch"}, ns \in Lookups}

PluginCalls == {Call("GetPlugin", ns, v, NoPlugin) : ns \in Lookups, v \in VersionArgs}

\* The inputs of two concurrent callers
ConcMetrics == {Metric(P1, NsAB, 0), Metric(P2, NsAB, 0), Metric(P1, NsStar, 0)}

ConcLockingCalls ==
    {Call("Remove", NsAB, 0, NoPlugin), Call("RmUnloadedPluginMetrics", <<>>, 0, P1)}
    \cup {Call(op, NsStar, 0, NoPlugin) : op \in {"MatchQuery", "GetQueriedNamespaces"}}
    \cup {Call(op, NsAB, v, NoPlugin) :
            op \in {"Get", "Subscribe", "Unsubscribe"}, v \in {-1, 1}}
    \cup {Call(op, NsAB, 0, NoPlugin) : op \in {"GetVersions", "Fetch"}}

ConcPluginCalls == {Call("GetPlugin", NsAB, -1, NoPlugin)}

NoCall == [op |-> "none", ns |-> <<>>, ver |-> 0, lp |-> NoPlugin]

\* what a call returned: the error, and the value in the field of its type
\* (names: MatchQuery and GetQueriedNamespaces; mts: Get, GetVersions, Fetch
\* and Item; plugins: GetPlugin; list: Keys; ok: Next; key: Item)
NoRet ==
    [err |-> "none", names |-> <<>>, mts |-> {}, plugins |-> {},
     list |-> <<>>, ok |-> FALSE, key |-> <<>>]

\* a return of the error err, or of nil, and no value
Ret(err) == [NoRet EXCEPT !.err = err]

Running == \A t \in Threads : pc[t] # "panic"

Return(t, r) ==
    /\ pc' = [pc EXCEPT ![t] = "idle"]
    /\ ret' = [ret EXCEPT ![t] = r]

\* the deferred mc.mutex.Unlock() together with the return
UnlockReturn(t, r) ==
    /\ mutex' = NoThread
    /\ Return(t, r)

Locked(t, op) == Running /\ pc[t] = "locked" /\ mutex = t /\ call[t].op = op

----------------------------------------------------------------------------
(* newMetricCatalog *)

Init ==
    /\ tree = NewMTTrie
    /\ keys = <<>>
    /\ mKeys = <<>>
    /\ currentIter = 0
    /\ mutex = NoThread
    /\ pc = [t \in Threads |-> "idle"]
    /\ call = [t \in Threads |-> NoCall]
    /\ ret = [t \in Threads |-> NoRet]

----------------------------------------------------------------------------
(* Actions *)

\* AddLoadedMetricType with the config policy tested before the namespace
AddLoadedMetricTypePolicyFirst(t, mt) ==
    /\ Running /\ pc[t] = "idle"
    /\ call' = [call EXCEPT ![t] = Call("Add", mt.ns, mt.ver, mt.lp)]
    /\ IF ~mt.lp.ConfigPolicy
       THEN Return(t, Ret("Config policy is nil"))
       ELSE IF validateMetricNamespace(mt.ns) # "nil"
       THEN Return(t, Ret(validateMetricNamespace(mt.ns)))
       ELSE /\ pc' = [pc EXCEPT ![t] = "calling"]
            /\ ret' = [ret EXCEPT ![t] = NoRet]
    /\ UNCHANGED <<tree, keys, mKeys, currentIter, mutex>>

\* AddLoadedMetricType up to its call of mc.Add
AddLoadedMetricType(t, mt) ==
    /\ Running /\ pc[t] = "idle"
    /\ call' = [call EXCEPT ![t] = Call("Add", mt.ns, mt.ver, mt.lp)]
    /\ IF validateMetricNamespace(mt.ns) # "nil"
       THEN Return(t, Ret(validateMetricNamespace(mt.ns)))
       ELSE IF ~mt.lp.ConfigPolicy
       THEN Return(t, Ret("Config policy is nil"))
       ELSE /\ pc' = [pc EXCEPT ![t] = "calling"]
            /\ ret' = [ret EXCEPT ![t] = NoRet]
    /\ UNCHANGED <<tree, keys, mKeys, currentIter, mutex>>

\* GetPlugin up to its call of mc.Get
GetPlugin(t, cl) ==
    /\ Running /\ pc[t] = "idle"
    /\ call' = [call EXCEPT ![t] = cl]
    /\ pc' = [pc EXCEPT ![t] = "calling"]
    /\ ret' = [ret EXCEPT ![t] = NoRet]
    /\ UNCHANGED <<tree, keys, mKeys, currentIter, mutex>>

\* the subscription count Subscribe would exceed the model's cap at
AtCap(cl) ==
    cl.op = "Subscribe"
    /\ \E r \in get(tree, cl.ns, cl.ver) :
          r.err = "nil" /\ \E m \in r.m : m.subscriptions >= MaxSubs

\* a Lock that does not wait for the mutex to be free
LockNoWait(t, cl) ==
    /\ Running /\ pc[t] = "idle"
    /\ ~AtCap(cl)
    /\ mutex' = t
    /\ pc' = [pc EXCEPT ![t] = "locked"]
    /\ call' = [call EXCEPT ![t] = cl]
    /\ ret' = [ret EXCEPT ![t] = NoRet]
    /\ UNCHANGED <<tree, keys, mKeys, currentIter>>

\* mc.mutex.Lock() of a method that locks in its first statement
Lock(t, cl) ==
    /\ Running /\ pc[t] = "idle" /\ mutex = NoThread
    /\ ~AtCap(cl)
    /\ mutex' = t
    /\ pc' = [pc EXCEPT ![t] = "locked"]
    /\ call' = [call EXCEPT ![t] = cl]
    /\ ret' = [ret EXCEPT ![t] = NoRet]
    /\ UNCHANGED <<tree, keys, mKeys, currentIter>>

\* mc.mutex.Lock() inside mc.Add and mc.Get, called by the two wrappers
LockCalled(t) ==
    /\ Running /\ pc[t] = "calling" /\ mutex = NoThread
    /\ mutex' = t
    /\ pc' = [pc EXCEPT ![t] = "locked"]
    /\ UNCHANGED <<tree, keys, mKeys, currentIter, call, ret>>

Add(t) ==
    /\ Locked(t, "Add")
    /\ LET m == metricType(call[t].lp, call[t].ns, call[t].ver)
           key == getMetricKey(m.namespace)
       IN  /\ keys' = appendIfMissing(keys, key)
           /\ tree' = TrieAdd(tree, m)
    /\ UnlockReturn(t, Ret("nil"))
    /\ UNCHANGED <<mKeys, currentIter, call>>

RmUnloadedPluginMetrics(t) ==
    /\ Locked(t, "RmUnloadedPluginMetrics")
    /\ tree' = TrieDeleteByPlugin(tree, call[t].lp)
    /\ mKeys' = updateMatchingMap(mKeys, keys)
    /\ UnlockReturn(t, Ret("nil"))
    /\ UNCHANGED <<keys, currentIter, call>>

Remove(t) ==
    /\ Locked(t, "Remove")
    /\ tree' = TrieRemove(tree, call[t].ns)
    /\ mKeys' = removeMatchedKey(mKeys, getMetricKey(call[t].ns))
    /\ UnlockReturn(t, Ret("nil"))
    /\ UNCHANGED <<keys, currentIter, call>>

MatchQuery(t) ==
    /\ Locked(t, "MatchQuery")
    /\ LET wkey == getMetricKey(call[t].ns)
       IN  /\ mKeys' = addItemToMatchingMap(mKeys, keys, wkey)
           /\ LET r == matchedNamespaces(mKeys', wkey)
              IN  UnlockReturn(t, [Ret(r.err) EXCEPT !.names = r.val])
    /\ UNCHANGED <<tree, keys, currentIter, call>>

GetQueriedNamespaces(t) ==
    /\ Locked(t, "GetQueriedNamespaces")
    /\ LET r == matchedNamespaces(mKeys, getMetricKey(call[t].ns))
       IN  UnlockReturn(t, [Ret(r.err) EXCEPT !.names = r.val])
    /\ UNCHANGED <<tree, keys, mKeys, currentIter, call>>

\* Get, also when called by GetPlugin, which hands on the entry's plugin
Get(t) ==
    /\ \/ Locked(t, "Get")
       \/ Locked(t, "GetPlugin")
    /\ \E r \in get(tree, call[t].ns, call[t].ver) :
          UnlockReturn(t, IF call[t].op = "GetPlugin"
                          THEN [Ret(r.err) EXCEPT !.plugins = {m.Plugin : m \in r.m}]
                          ELSE [Ret(r.err) EXCEPT !.mts = {EntryOf(m) : m \in r.m}])
    /\ UNCHANGED <<tree, keys, mKeys, currentIter, call>>

GetVersions(t) ==
    /\ Locked(t, "GetVersions")
    /\ LET r == getVersions(tree, call[t].ns)
       IN  UnlockReturn(t, [Ret(r.err) EXCEPT !.mts = {EntryOf(m) : m \in r.mts}])
    /\ UNCHANGED <<tree, keys, mKeys, currentIter, call>>

\* Fetch; the failure of tree.Fetch is not modelled
Fetch(t) ==
    /\ Locked(t, "Fetch")
    /\ UnlockReturn(t, [Ret("nil") EXCEPT
                           !.mts = {EntryOf(m) : m \in TrieFetch(tree, call[t].ns)}])
    /\ UNCHANGED <<tree, keys, mKeys, currentIter, call>>

\* metricType.Subscribe on the entry m of the trie
SubscribeEntry(tr, m) ==
    (tr \ {m}) \cup {[m EXCEPT !.subscriptions = m.subscriptions + 1]}

\* metricType.Unsubscribe without the test for a zero count
UnsubscribeEntryUnchecked(tr, m) ==
    [err |-> "nil",
     tree |-> (tr \ {m}) \cup {[m EXCEPT !.subscriptions = m.subscriptions - 1]}]

\* metricType.Unsubscribe with the test made after the decrement
UnsubscribeEntryLateCheck(tr, m) ==
    [err |-> IF m.subscriptions = 0 THEN "errNegativeSubCount" ELSE "nil",
     tree |-> (tr \ {m}) \cup {[m EXCEPT !.subscriptions = m.subscriptions - 1]}]

\* metricType.Unsubscribe on the entry m of the trie: the error and the trie
UnsubscribeEntry(tr, m) ==
    IF m.subscriptions = 0
    THEN [err |-> "errNegativeSubCount", tree |-> tr]
    ELSE [err |-> "nil",
          tree |-> (tr \ {m}) \cup {[m EXCEPT !.subscriptions = m.subscriptions - 1]}]

Subscribe(t) ==
    /\ Locked(t, "Subscribe")
    /\ \E r \in get(tree, call[t].ns, call[t].ver) :
          IF r.err # "nil"
          THEN /\ tree' = tree
               /\ UnlockReturn(t, Ret(r.err))
          ELSE \E m \in r.m :
                  /\ tree' = SubscribeEntry(tree, m)
                  /\ UnlockReturn(t, Ret("nil"))
    /\ UNCHANGED <<keys, mKeys, currentIter, call>>

\* Unsubscribe with an error return that does not unlock
UnsubscribeKeepsLock(t) ==
    /\ Locked(t, "Unsubscribe")
    /\ \E r \in get(tree, call[t].ns, call[t].ver) :
          IF r.err # "nil"
          THEN /\ tree' = tree /\ mutex' = mutex
               /\ Return(t, Ret(r.err))
          ELSE \E m \in r.m :
                  /\ tree' = UnsubscribeEntry(tree, m).tree
                  /\ UnlockReturn(t, Ret(UnsubscribeEntry(tree, m).err))
    /\ UNCHANGED <<keys, mKeys, currentIter, call>>

Unsubscribe(t) ==
    /\ Locked(t, "Unsubscribe")
    /\ \E r \in get(tree, call[t].ns, call[t].ver) :
          IF r.err # "nil"
          THEN /\ tree' = tree
               /\ UnlockReturn(t, Ret(r.err))
          ELSE \E m \in r.m :
                  /\ tree' = UnsubscribeEntry(tree, m).tree
                  /\ UnlockReturn(t, Ret(UnsubscribeEntry(tree, m).err))
    /\ UNCHANGED <<keys, mKeys, currentIter, call>>

\* Keys returns mc.keys; it takes no lock
Keys(t) ==
    /\ Running /\ pc[t] = "idle"
    /\ call' = [call EXCEPT ![t] = Call("Keys", <<>>, 0, NoPlugin)]
    /\ Return(t, [Ret("nil") EXCEPT !.list = keys])
    /\ UNCHANGED <<tree, keys, mKeys, currentIter, mutex>>

\* The method Next (Next is the next-state relation below), first statement:
\* mc.currentIter++; it takes no lock
Next_(t) ==
    /\ Running /\ pc[t] = "idle"
    /\ currentIter' = currentIter + 1
    /\ call' = [call EXCEPT ![t] = Call("Next", <<>>, 0, NoPlugin)]
    /\ pc' = [pc EXCEPT ![t] = "Next"]
    /\ ret' = [ret EXCEPT ![t] = NoRet]
    /\ UNCHANGED <<tree, keys, mKeys, mutex>>

\* Next, the comparison with len(mc.keys) and the reset
NextCheck(t) ==
    /\ Running /\ pc[t] = "Next"
    /\ IF currentIter > Len(keys)
       THEN /\ currentIter' = 0
            /\ Return(t, [Ret("nil") EXCEPT !.ok = FALSE])
       ELSE /\ currentIter' = currentIter
            /\ Return(t, [Ret("nil") EXCEPT !.ok = TRUE])
    /\ UNCHANGED <<tree, keys, mKeys, mutex, call>>

\* Item, first statements: key := mc.keys[mc.currentIter-1], an index out of
\* range panics; ns := strings.Split(key, "."); it takes no lock
Item(t) ==
    /\ Running /\ pc[t] = "idle"
    /\ IF currentIter - 1 \in 0..(Len(keys) - 1)
       THEN /\ call' = [call EXCEPT ![t] =
                           Call("Item", Split(keys[currentIter], "."), 0, NoPlugin)]
            /\ pc' = [pc EXCEPT ![t] = "Item"]
            /\ ret' = [ret EXCEPT ![t] = NoRet]
       ELSE /\ call' = [call EXCEPT ![t] = Call("Item", <<>>, 0, NoPlugin)]
            /\ pc' = [pc EXCEPT ![t] = "panic"]
            /\ ret' = [ret EXCEPT ![t] = Ret("panic")]
    /\ UNCHANGED <<tree, keys, mKeys, currentIter, mutex>>

\* Item, the rest: mc.tree.Get(ns) and the return of key and entries
ItemGet(t) ==
    /\ Running /\ pc[t] = "Item"
    /\ Return(t, [Ret("nil") EXCEPT
                     !.key = getMetricKey(call[t].ns),
                     !.mts = {EntryOf(m) : m \in TrieGet(tree, call[t].ns)}])
    /\ UNCHANGED <<tree, keys, mKeys, currentIter, mutex, call>>

\* one step of caller t in the methods that take the mutex, its inputs
\* drawn from the given sets
CatalogStep(t, metrics, lockingCalls, pluginCalls) ==
    \/ \E mt \in metrics : AddLoadedMetricType(t, mt)
    \/ \E cl \in pluginCalls : GetPlugin(t, cl)
    \/ \E cl \in lockingCalls : Lock(t, cl)
    \/ LockCalled(t)
    \/ Add(t)
    \/ RmUnloadedPluginMetrics(t)
    \/ Remove(t)
    \/ MatchQuery(t)
    \/ GetQueriedNamespaces(t)
    \/ Get(t)
    \/ GetVersions(t)
    \/ Fetch(t)
    \/ Subscribe(t)
    \/ Unsubscribe(t)

\* one step of caller t in the methods that take no lock
IteratorStep(t) ==
    \/ Keys(t)
    \/ Next_(t)
    \/ NextCheck(t)
    \/ Item(t)
    \/ ItemGet(t)

\* two concurrent callers of every method
Next ==
    \E t \in Threads :
        \/ CatalogStep(t, ConcMetrics, ConcLockingCalls, ConcPluginCalls)
        \/ IteratorStep(t)

Spec == Init /\ [][Next]_vars

\* the steps that take caller t on from inside a method to its return
Finish(t) ==
    \/ Add(t)
    \/ RmUnloadedPluginMetrics(t)
    \/ Remove(t)
    \/ MatchQuery(t)
    \/ GetQueriedNamespaces(t)
    \/ Get(t)
    \/ GetVersions(t)
    \/ Fetch(t)
    \/ Subscribe(t)
    \/ Unsubscribe(t)

\* Fair scheduling: a caller inside a method goes on running, and a caller
\* waiting in mc.mutex.Lock() gets the mutex if it is free again and again
\* (sync.Mutex hands the mutex to a waiter that has waited long)
Fairness == \A t \in Threads : WF_pc(Finish(t)) /\ SF_pc(LockCalled(t))

\* Two concurrent callers of the methods that take the mutex, under fair
\* scheduling, over one registered namespace: caller t1 calls each method,
\* with its error returns (a plugin without config policy, an invalid
\* namespace, a query that matches nothing, a lookup that finds nothing, an
\* Unsubscribe at count 0); caller t2 calls the two wrappers, Subscribe and
\* Unsubscribe
LiveMetrics == {Metric(P1, NsAB, 0), Metric(P0, NsAB, 0), Metric(P1, NsStar, 0)}

LiveLockingCalls ==
    {Call("Remove", NsAB, 0, NoPlugin), Call("RmUnloadedPluginMetrics", <<>>, 0, P1)}
    \cup {Call(op, NsStar, 0, NoPlugin) : op \in {"MatchQuery", "GetQueriedNamespaces"}}
    \cup {Call(op, NsAB, -1, NoPlugin) : op \in {"Get", "Subscribe", "Unsubscribe"}}
    \cup {Call(op, NsAB, 0, NoPlugin) : op \in {"GetVersions", "Fetch"}}

LiveSecondCalls == {Call(op, NsAB, -1, NoPlugin) : op \in {"Subscribe", "Unsubscribe"}}

LivePluginCalls == {Call("GetPlugin", NsAB, -1, NoPlugin)}

NextLive ==
    \/ CatalogStep("t1", LiveMetrics, LiveLockingCalls, LivePluginCalls)
    \/ CatalogStep("t2", LiveMetrics, LiveSecondCalls, LivePluginCalls)

SpecFair == Init /\ [][NextLive]_vars /\ Fairness

\* Subscribe and then Unsubscribe with the same arguments: caller t1 calls
\* Subscribe(N, v) while every count is 0 and, once it has returned nil,
\* Unsubscribe(N, v); caller t2 registers, at any time, versions of N that
\* are not registered yet
SubMetrics == {Metric(P1, NsAB, 0), Metric(P2, NsAB, 0), Metric(P1, NsAB, 2)}

SubVersionArgs == {-1, 1, 2}

NextSub ==
    \/ \E mt \in SubMetrics :
          /\ \A e \in TrieGet(tree, mt.ns) : Version(e) # Version(metricType(mt.lp, mt.ns, mt.ver))
          /\ AddLoadedMetricType("t2", mt)
    \/ LockCalled("t2")
    \/ Add("t2")
    \/ \E v \in SubVersionArgs :
          /\ \A e \in tree : e.subscriptions = 0
          /\ Lock("t1", Call("Subscribe", NsAB, v, NoPlugin))
    \/ Subscribe("t1")
    \/ /\ pc["t1"] = "idle" /\ call["t1"].op = "Subscribe" /\ ret["t1"].err = "nil"
       /\ Lock("t1", Call("Unsubscribe", call["t1"].ns, call["t1"].ver, NoPlugin))
    \/ Unsubscribe("t1")

SpecSub == Init /\ [][NextSub]_vars

\* The iterator alone: one caller registers namespaces (the empty one among
\* them, which validation accepts), removes one and walks the key list with
\* Next and Item
IterMetrics ==
    {Metric(P1, <<>>, 0), Metric(P1, NsAB, 0), Metric(P2, NsAB, 0), Metric(P1, NsABC, 0)}

NextIter ==
    \/ \E mt \in IterMetrics : AddLoadedMetricType("t1", mt)
    \/ LockCalled("t1")
    \/ Add("t1")
    \/ Lock("t1", Call("Remove", NsAB, 0, NoPlugin))
    \/ Remove("t1")
    \/ IteratorStep("t1")

SpecIter == Init /\ [][NextIter]_vars

\* Queries alone: one caller registers three namespaces and queries with a
\* pattern without wildcard (a.b), with a wildcard segment at the end (a.*)
\* and at the start (*.c), with a wildcard inside a segment (a.b*) and with
\* a pattern no key matches (a.b.c.*)
QueryMetrics == {Metric(P1, ns, 0) : ns \in {NsAB, NsAC, NsABC}}

QueryCalls ==
    {Call("MatchQuery", q, 0, NoPlugin) :
        q \in {NsAB, NsStar, NsStarC, NsABStar, <<a, b, c, star>>}}

NextQuery ==
    \/ \E mt \in QueryMetrics : AddLoadedMetricType("t1", mt)
    \/ \E cl \in QueryCalls : Lock("t1", cl)
    \/ LockCalled("t1")
    \/ Add("t1")
    \/ MatchQuery("t1")

SpecQuery == Init /\ [][NextQuery]_vars

\* one caller of the methods that take the mutex, over the wider inputs
NextCatalog == CatalogStep("t1", Metrics, LockingCalls, PluginCalls)

SpecCatalog == Init /\ [][NextCatalog]_vars

\* Registration alone: one caller registers up to MaxKeys namespaces drawn
\* from all namespaces of at most two of these segments
Segments ==
    {<<>>, a, star, <<"a", "*">>, <<" ">>, <<"(">>, <<".">>, <<"/">>, <<"^">>, <<"'">>}

Namespaces == {<<>>} \cup {<<s>> : s \in Segments} \cup {<<s, u>> : s, u \in Segments}

RegMetrics == {Metric(lp, ns, 0) : lp \in {P1, P0}, ns \in Namespaces}

NextReg ==
    \/ \E mt \in RegMetrics : Len(keys) < MaxKeys /\ AddLoadedMetricType("t1", mt)
    \/ LockCalled("t1")
    \/ Add("t1")

SpecReg == Init /\ [][NextReg]_vars

\* The match cache alone: one caller registers three namespaces, queries
\* with two patterns (a.* matches the three keys, a.b* two of them) and
\* removes namespaces
CacheMetrics == {Metric(P1, ns, 0) : ns \in {NsAB, NsAC, NsABC}}

CacheCalls ==
    {Call("Remove", ns, 0, NoPlugin) : ns \in {NsAB, NsAC, NsABC}}
    \cup {Call("MatchQuery", q, 0, NoPlugin) : q \in {NsStar, NsABStar}}

NextCache ==
    \/ \E mt \in CacheMetrics : AddLoadedMetricType("t1", mt)
    \/ \E cl \in CacheCalls : Lock("t1", cl)
    \/ LockCalled("t1")
    \/ Add("t1")
    \/ Remove("t1")
    \/ MatchQuery("t1")

SpecCache == Init /\ [][NextCache]_vars


----------------------------------------------------------------------------
(* Vocabulary of the properties *)

Range(f) == {f[i] : i \in DOMAIN f}

\* the namespaces with at least one registered version
Registered == {e.namespace : e \in tree}

\* caller t has returned from a call of op and has not called since
Returned(t, op) == pc[t] = "idle" /\ call[t].op = op /\ ret[t] # NoRet

\* the namespace ns matches the pattern of the query key wkey
Matches(wkey, ns) == RegexMatch(QueryRegex(wkey), getMetricKey(ns))

CatalogUnchanged == tree' = tree /\ keys' = keys /\ mKeys' = mKeys

----------------------------------------------------------------------------
\* C1: whenever no call is in progress, every cached query key Q has
\* GetQueriedNamespaces(Q) return exactly the namespaces that have a
\* registered version and match Q's pattern.
C1_WildcardConsistency ==
    (\A t \in Threads : pc[t] = "idle") =>
        \A q \in DOMAIN mKeys :
            Range(matchedNamespaces(mKeys, q).val) = {ns \in Registered : Matches(q, ns)}

\* C2: when RmUnloadedPluginMetrics(P) runs while a cached query key Q
\* matches only namespaces whose versions are all owned by P, then after it
\* GetQueriedNamespaces(Q) fails with metric-not-found.
C2_UnloadDropsQuery ==
    [][\A t \in Threads :
          RmUnloadedPluginMetrics(t) =>
             \A q \in DOMAIN mKeys :
                (\A ns \in Range(matchedNamespaces(mKeys, q).val) :
                    /\ TrieGet(tree, ns) # {}
                    /\ \A e \in TrieGet(tree, ns) : e.Plugin = call[t].lp)
                => matchedNamespaces(mKeys', q).err = "errorMetricNotFound"]_vars

\* C3: a MatchQuery(Q) returns no namespace without a registered version
\* (such a namespace was deleted by a Remove or RmUnloadedPluginMetrics that
\* has returned), and returns every registered namespace that matches Q.
C3_QueryAfterMutation ==
    [][\A t \in Threads :
          MatchQuery(t) =>
             LET q == getMetricKey(call[t].ns)
             IN  /\ Range(ret'[t].names) \subseteq Registered
                 /\ {ns \in Registered : Matches(q, ns)} \subseteq Range(ret'[t].names)]_vars


----------------------------------------------------------------------------
\* C4: in every reachable state, under any interleaving of two callers, the
\* subscription count of every entry of the catalog is >= 0.
C4_CountNeverNegative == \A e \in tree : e.subscriptions >= 0

\* an Unsubscribe has brought a count back to 0, and another caller's
\* Unsubscribe on that entry was refused
C4_Witness ==
    \E t, u \in Threads :
        /\ t # u
        /\ Returned(t, "Unsubscribe") /\ ret[t].err = "nil"
        /\ Returned(u, "Unsubscribe") /\ ret[u].err = "errNegativeSubCount"
        /\ call[u].ns = call[t].ns
        /\ \E e \in TrieGet(tree, call[t].ns) : e.subscriptions = 0

----------------------------------------------------------------------------
\* C5: an Unsubscribe(N, V) that resolves to an entry with count 0 returns
\* the negative-subscription-count error and leaves the trie (so every count),
\* the key list and the match cache as they were; a Subscribe or Unsubscribe
\* whose namespace and version do not resolve returns metric-not-found and
\* leaves them as they were too.
C5_RefusedUnsubscribe ==
    [][\A t \in Threads :
          LET outs == get(tree, call[t].ns, call[t].ver)
          IN  /\ Unsubscribe(t) /\ (\A r \in outs : r.err = "nil" /\ \A m \in r.m : m.subscriptions = 0)
                    => ret'[t].err = "errNegativeSubCount" /\ CatalogUnchanged
              /\ Unsubscribe(t) /\ ret'[t].err = "errNegativeSubCount" => CatalogUnchanged
              /\ (Subscribe(t) \/ Unsubscribe(t)) /\ (\A r \in outs : r.err # "nil")
                    => ret'[t].err = "errorMetricNotFound" /\ CatalogUnchanged]_vars

\* an Unsubscribe on an entry with count 0 was refused while another entry
\* holds a subscription
C5_Witness ==
    \E t \in Threads :
        /\ Returned(t, "Unsubscribe") /\ ret[t].err = "errNegativeSubCount"
        /\ \E e \in TrieGet(tree, call[t].ns) : e.subscriptions = 0
        /\ \E e \in tree : e.subscriptions > 0

----------------------------------------------------------------------------
\* C6: for V > 0, Get(N, V) returns the entry under N whose Version() is V,
\* and fails with metric-not-found when no entry under N has Version() V.
C6_GetExactVersion ==
    [][\A t \in Threads :
          Get(t) /\ call[t].op = "Get" /\ call[t].ver > 0 =>
             LET hit == {e \in TrieGet(tree, call[t].ns) : Version(e) = call[t].ver}
             IN  IF hit = {}
                 THEN ret'[t].err = "errorMetricNotFound"
                 ELSE ret'[t].err = "nil" /\ ret'[t].mts = {EntryOf(e) : e \in hit}]_vars

----------------------------------------------------------------------------
\* C7: for V <= 0, Get(N, V) returns the entry under N with the greatest
\* Version() of those registered under N, and fails with metric-not-found
\* when nothing is registered under N.
C7_GetLatest ==
    [][\A t \in Threads :
          Get(t) /\ call[t].op = "Get" /\ call[t].ver <= 0 =>
             LET mts == TrieGet(tree, call[t].ns)
             IN  IF mts = {}
                 THEN ret'[t].err = "errorMetricNotFound"
                 ELSE /\ ret'[t].err = "nil"
                      /\ \E e \in mts :
                            /\ ret'[t].mts = {EntryOf(e)}
                            /\ \A o \in mts : Version(o) <= Version(e)]_vars

\* Get(N, V) with V <= 0 has returned while two versions are registered
\* under N, the greater one through the metric's own version
C7_Witness ==
    \E t \in Threads :
        /\ Returned(t, "Get") /\ call[t].ver <= 0 /\ ret[t].err = "nil"
        /\ Cardinality(TrieGet(tree, call[t].ns)) = 2
        /\ \E e \in TrieGet(tree, call[t].ns) :
              ret[t].mts = {EntryOf(e)} /\ Version(e) = 2 /\ PluginVersion(e.Plugin) = 1


----------------------------------------------------------------------------
(* The registration rule as the specification words it *)

RuleChars ==
    {"(", ")", "[", "]", "{", "}"} \cup {" "} \cup {".", ",", ";", "?", "!"}
    \cup {"|", "\\", "/"} \cup {"^"} \cup {"\"", "backquote", "'"}

\* some segment holds a disallowed character, or the segments written one
\* after the other end with '*'
BadNamespace(ns) ==
    \/ \E i \in 1..Len(ns) : \E j \in 1..Len(ns[i]) : ns[i][j] \in RuleChars
    \/ \E i \in 1..Len(ns) :
          /\ ns[i] # <<>> /\ ns[i][Len(ns[i])] = "*"
          /\ \A k \in (i + 1)..Len(ns) : ns[k] = <<>>

NamespaceErrors == {"errorMetricContainsNotAllowedChars", "errorMetricEndsWithAsterisk"}

----------------------------------------------------------------------------
\* C8: an AddLoadedMetricType that fails, on an invalid namespace or on a
\* plugin without config policy, returns an error and leaves the trie, the
\* key list and the match cache as they were, with no call of Add under way;
\* an invalid namespace is reported also when the plugin has no config policy.
AddLoadedMetricTypeStep(t) ==
    /\ pc[t] = "idle" /\ call'[t].op = "Add"
    /\ <<pc[t], call[t], ret[t]>> # <<pc'[t], call'[t], ret'[t]>>

C8_FailedAddLeavesCatalog ==
    [][\A t \in Threads :
          AddLoadedMetricTypeStep(t) =>
             /\ BadNamespace(call'[t].ns)
                   => /\ ret'[t].err \in NamespaceErrors
                      /\ pc'[t] = "idle" /\ CatalogUnchanged
             /\ ~BadNamespace(call'[t].ns) /\ ~call'[t].lp.ConfigPolicy
                   => /\ ret'[t].err = "Config policy is nil"
                      /\ pc'[t] = "idle" /\ CatalogUnchanged]_vars

\* a registration of an invalid namespace by a plugin without config policy
\* was refused for its namespace, the catalog holding entries and a cached query
C8_Witness ==
    \E t \in Threads :
        /\ Returned(t, "Add") /\ call[t].lp = P0 /\ call[t].ns = NsStar
        /\ ret[t].err = "errorMetricEndsWithAsterisk"
        /\ tree # {} /\ DOMAIN mKeys # {}

----------------------------------------------------------------------------
\* C9: AddLoadedMetricType returns a namespace error if and only if some
\* segment holds a disallowed character or the joined namespace ends with
\* '*'; no such namespace reaches mc.Add, the trie or the key list, and no
\* entry of the trie has '*' as its last segment.
C9_ValidationRule ==
    /\ \A t \in Threads :
          /\ Returned(t, "Add") => (ret[t].err \in NamespaceErrors <=> BadNamespace(call[t].ns))
          /\ pc[t] \in {"calling", "locked"} /\ call[t].op = "Add" => ~BadNamespace(call[t].ns)
    /\ \A e \in tree :
          /\ ~BadNamespace(e.namespace)
          /\ e.namespace # <<>> => e.namespace[Len(e.namespace)] # star
    /\ \A i \in DOMAIN keys : ~HasSuffix(keys[i], "*")

\* a namespace with an asterisk inside was registered, and one with a
\* wildcard as its last segment was then refused
C9_Witness ==
    \E t \in Threads :
        /\ Returned(t, "Add") /\ ret[t].err = "errorMetricEndsWithAsterisk"
        /\ call[t].ns # <<>> /\ call[t].ns[Len(call[t].ns)] = star
        /\ \E e \in tree : \E i \in 1..Len(e.namespace) : ContainsAny(e.namespace[i], "*")

----------------------------------------------------------------------------
\* C10: a caller that is inside an operation reading or writing the trie,
\* the key list, the match cache or the cursor holds the mutex, so no two
\* callers are inside such operations at the same time.
Accessing(t) == pc[t] \in {"locked", "Next", "Item"}

C10_MutexHeldForAccess ==
    /\ \A t \in Threads : Accessing(t) => mutex = t
    /\ Cardinality({t \in Threads : Accessing(t)}) <= 1

----------------------------------------------------------------------------
\* the list ks holds no element twice
NoDuplicates(ks) == \A i, j \in DOMAIN ks : ks[i] = ks[j] => i = j

\* C11: whenever the mutex is free, the key list holds no key twice and is
\* exactly the set of the keys of the namespaces with a registered version.
C11_KeyListIsRegistered ==
    mutex = NoThread =>
        /\ NoDuplicates(keys)
        /\ Range(keys) = {getMetricKey(ns) : ns \in Registered}

----------------------------------------------------------------------------
\* C12: whenever the mutex is free, every key in a value list of the match
\* cache is in the key list, and no cached query key maps to an empty list.
C12_CacheWithinKeys ==
    mutex = NoThread =>
        \A q \in DOMAIN mKeys :
            /\ Range(mKeys[q]) \subseteq Range(keys)
            /\ Len(mKeys[q]) # 0

\* Remove has purged the first key of the key list from the cached list of
\* a query that matched both keys, and the query key is kept with the other
C12_Witness ==
    /\ mutex = NoThread
    /\ keys = <<getMetricKey(NsAB), getMetricKey(NsABC)>>
    /\ \E t \in Threads : Returned(t, "Remove") /\ call[t].ns = NsAB
    /\ getMetricKey(NsStar) \in DOMAIN mKeys
    /\ mKeys[getMetricKey(NsStar)] = <<getMetricKey(NsABC)>>

----------------------------------------------------------------------------
\* the entries under ns a caller can be handed by GetVersions(ns) or by
\* Get(ns, v) for some version argument v
ReachableEntries(tr, ns) ==
    getVersions(tr, ns).mts \cup UNION {r.m : r \in UNION {get(tr, ns, v) : v \in -1..2}}

\* C13: after an Add of (namespace, version) by a plugin, also when the same
\* Add was made before, the key list holds the namespace's key exactly once
\* and exactly one entry with that namespace and version is reachable through
\* Get and GetVersions.
C13_AddIdempotent ==
    [][\A t \in Threads :
          Add(t) =>
             LET m == metricType(call[t].lp, call[t].ns, call[t].ver)
                 key == getMetricKey(m.namespace)
             IN  /\ Cardinality({i \in DOMAIN keys' : keys'[i] = key}) = 1
                 /\ Cardinality({e \in ReachableEntries(tree', m.namespace) :
                                    Version(e) = Version(m)}) = 1]_vars

\* both callers have returned from the same Add, one after the other, and
\* neither has called since; another plugin's version is registered too
C13_Witness ==
    /\ \A t \in Threads : Returned(t, "Add") /\ ret[t].err = "nil"
    /\ \A t, u \in Threads : call[t] = call[u]
    /\ keys = <<getMetricKey(NsAB)>>
    /\ Cardinality(TrieGet(tree, NsAB)) = 2

----------------------------------------------------------------------------
\* C14: for every namespace N handed to the registration, whatever its
\* segments, getMetricNamespace(getMetricKey(N)) = N.
C14_KeyRoundTrip ==
    \A t \in Threads :
        call[t].op = "Add" => getMetricNamespace(getMetricKey(call[t].ns)) = call[t].ns

----------------------------------------------------------------------------
\* the list ks without the element key, the others in their order
RECURSIVE Without(_, _)
Without(ks, key) ==
    IF ks = <<>> THEN <<>>
    ELSE (IF Head(ks) = key THEN <<>> ELSE <<Head(ks)>>) \o Without(Tail(ks), key)

\* C15: when Remove(N) returns, every cached query key maps to the list it
\* mapped to before without the key of N, the other keys in their order, and
\* a query key whose list held nothing else is no longer cached.
C15_RemovePurgesKey ==
    [][\A t \in Threads :
          Remove(t) =>
             LET key == getMetricKey(call[t].ns)
             IN  /\ DOMAIN mKeys' = {q \in DOMAIN mKeys : Without(mKeys[q], key) # <<>>}
                 /\ \A q \in DOMAIN mKeys' : mKeys'[q] = Without(mKeys[q], key)]_vars

\* Remove has purged the key in the middle of a cached list of three and the
\* key at the head of a cached list of two
C15_Witness ==
    /\ Len(keys) = 3
    /\ \E t \in Threads : Returned(t, "Remove") /\ getMetricKey(call[t].ns) = keys[2]
    /\ DOMAIN mKeys = {getMetricKey(NsStar), getMetricKey(NsABStar)}
    /\ mKeys[getMetricKey(NsStar)] = <<keys[1], keys[3]>>
    /\ mKeys[getMetricKey(NsABStar)] = <<keys[3]>>

----------------------------------------------------------------------------
\* C16: no caller of a public method of the catalog ever panics.
C16_NoPanic == \A t \in Threads : pc[t] # "panic"

----------------------------------------------------------------------------
\* the trie tr with the count of its entry m changed by d
WithCount(tr, m, d) == (tr \ {m}) \cup {[m EXCEPT !.subscriptions = m.subscriptions + d]}

----------------------------------------------------------------------------
\* C18: a caller waiting for the mutex inside a method called by a wrapper
\* does not hold it, the mutex is held only by a caller inside the locked
\* part of a method (so every return, also with an error, has released it),
\* and under fair scheduling every caller inside a method that takes the
\* mutex returns.
C18_DeadlockFree ==
    /\ [](\A t \in Threads :
             /\ pc[t] = "calling" => mutex # t
             /\ mutex = t <=> pc[t] = "locked")
    /\ \A t \in Threads : (pc[t] # "idle") ~> (pc[t] = "idle")

\* AddLoadedMetricType waits in the Lock of mc.Add while the Get called by the
\* other caller's GetPlugin holds the mutex
C18_Witness ==
    \E t, u \in Threads :
        /\ pc[t] = "calling" /\ call[t].op = "Add"
        /\ pc[u] = "locked" /\ call[u].op = "GetPlugin" /\ mutex = u
        /\ tree # {}

----------------------------------------------------------------------------
\* C19: the count of a (namespace, version) that stays registered changes
\* only in a step of Subscribe or Unsubscribe; an Add of a (namespace,
\* version) that is registered with count c leaves its count at c.
C19_CountChangesOnlyBySubscription ==
    [][\A e \in tree : \A f \in tree' :
          e.namespace = f.namespace /\ Version(e) = Version(f)
             /\ e.subscriptions # f.subscriptions
          => \E t \in Threads : Subscribe(t) \/ Unsubscribe(t)]_vars

----------------------------------------------------------------------------
\* C20: an Unsubscribe(N, v) that follows a successful Subscribe(N, v) made
\* while every count was 0 returns nil and leaves every count at 0 again,
\* whatever versions of N were registered between the two calls.
C20_UnsubscribeUndoesSubscribe ==
    [][\A t \in Threads :
          Unsubscribe(t) =>
             /\ ret'[t].err = "nil"
             /\ \A e \in tree' : e.subscriptions = 0]_vars

----------------------------------------------------------------------------
\* the entries registered under the key: those whose namespace has that key
RegisteredUnder(key) == {e \in tree : getMetricKey(e.namespace) = key}

\* C21: for one caller, a Next called at cursor i returns true and leaves the
\* cursor at i + 1 when i is less than the length n of the key list, and
\* returns false and leaves the cursor at 0 when i = n; an Item called at
\* cursor i >= 1 returns the i-th key of the key list and exactly the entries
\* registered under that key.
C21_IteratorWalk ==
    [][\A t \in Threads :
          /\ NextCheck(t) =>
                LET i == currentIter - 1
                IN  /\ i \in 0..Len(keys)
                    /\ ret'[t].ok <=> i < Len(keys)
                    /\ currentIter' = IF i < Len(keys) THEN i + 1 ELSE 0
          /\ ItemGet(t) =>
                /\ ret'[t].key = keys[currentIter]
                /\ ret'[t].mts = {EntryOf(e) : e \in RegisteredUnder(keys[currentIter])}]_vars

----------------------------------------------------------------------------
\* the string s matches the pattern pat as a whole, '*' standing for any
\* sequence of characters and every other character for itself
RECURSIVE GlobMatch(_, _)
GlobMatch(pat, s) ==
    IF pat = <<>> THEN s = <<>>
    ELSE IF Head(pat) = "*"
    THEN \/ GlobMatch(Tail(pat), s)
         \/ s # <<>> /\ GlobMatch(pat, Tail(s))
    ELSE s # <<>> /\ Head(s) = Head(pat) /\ GlobMatch(Tail(pat), Tail(s))

\* the keys of ks that match pat, in the order of ks
RECURSIVE Matching(_, _)
Matching(pat, ks) ==
    IF ks = <<>> THEN <<>>
    ELSE (IF GlobMatch(pat, Head(ks)) THEN <<Head(ks)>> ELSE <<>>) \o Matching(pat, Tail(ks))

\* C22: MatchQuery(Q) returns the namespaces of, and caches under the key of
\* Q, exactly the keys of the key list that match Q as a whole, in key-list
\* order and none twice, '*' matching any sequence of characters, the
\* separator and the empty sequence included; when no key matches it returns
\* metric-not-found and the cache holds no entry for Q.
C22_MatchQueryResult ==
    [][\A t \in Threads :
          MatchQuery(t) =>
             LET q == getMetricKey(call[t].ns)
                 want == Matching(q, keys)
             IN  IF want = <<>>
                 THEN ret'[t].err = "errorMetricNotFound" /\ q \notin DOMAIN mKeys'
                 ELSE /\ ret'[t].err = "nil"
                      /\ NoDuplicates(want)
                      /\ q \in DOMAIN mKeys' /\ mKeys'[q] = want
                      /\ [i \in DOMAIN ret'[t].names |-> getMetricKey(ret'[t].names[i])]
                            = want]_vars

\* MatchQuery(a.b*) has returned a.b (the wildcard matching nothing) and
\* a.b.c (the wildcard matching across the separator), in key-list order and
\* without a.c, registered between them; the key list matches a.b.c.* nowhere
C22_Witness ==
    /\ keys = <<getMetricKey(NsAB), getMetricKey(NsAC), getMetricKey(NsABC)>>
    /\ \E t \in Threads :
          /\ Returned(t, "MatchQuery") /\ call[t].ns = NsABStar
          /\ ret[t].err = "nil" /\ ret[t].names = <<NsAB, NsABC>>
    /\ mKeys[getMetricKey(NsABStar)] = <<getMetricKey(NsAB), getMetricKey(NsABC)>>
    /\ getMetricKey(<<a, b, c, star>>) \notin DOMAIN mKeys

====
